---- MODULE Spec2Model ----
(***************************************************************************)
(* Model of the two string-to-Person conversions of                        *)
(* exercises/23_conversions: `impl FromStr for Person` (from_str.rs) and   *)
(* `impl From<&str> for Person` (from_into.rs).                            *)
(*                                                                         *)
(* A &str is a sequence of one-character strings.  Both conversions are    *)
(* pure functions of their input; the state machine draws an input text    *)
(* and applies each conversion to it once.                                 *)
(***************************************************************************)
EXTENDS Integers, Sequences, FiniteSets, TLC

VARIABLES input, strict, fallback

vars == <<input, strict, fallback>>

----------------------------------------------------------------------------
(* Bounds of the input space *)

\* longest input text drawn over the whole alphabet
MaxLen == 4

\* longest text that follows the prefix "a," in the second input family
MaxAgeLen == 4

\* the characters input texts are made of
Alphabet == {",", "a", " ", "+", "-", "0", "2", "5", "6"}

\* all texts over Alphabet of length at most n
Strings(n) == UNION {[1..k -> Alphabet] : k \in 0..n}

\* the texts the conversions are applied to
Inputs == Strings(MaxLen) \cup {<<"a", ",">> \o t : t \in Strings(MaxAgeLen)}

----------------------------------------------------------------------------
(* u8 and its parser: `age_str.parse::<u8>()` *)

\* u8::MAX, the width of Person.age
U8Max == 255

\* the radix of str::parse for integers
Radix == 10

\* char::to_digit(10): the digit's value, or -1 for None
to_digit(c) ==
    CASE c = "0" -> 0 [] c = "1" -> 1 [] c = "2" -> 2 [] c = "3" -> 3
      [] c = "4" -> 4 [] c = "5" -> 5 [] c = "6" -> 6 [] c = "7" -> 7
      [] c = "8" -> 8 [] c = "9" -> 9 [] OTHER -> -1

\* u8::checked_mul: None is -1
checked_mul(a, b) == IF a * b > U8Max THEN -1 ELSE a * b

\* mutant: the addition wraps at the u8 width instead of being checked
checked_add_wrapping(a, b) == (a + b) % (U8Max + 1)

\* u8::checked_add: None is -1
checked_add(a, b) == IF a + b > U8Max THEN -1 ELSE a + b

IntOk(v) == [ok |-> TRUE, val |-> v, kind |-> "None"]
IntErr(k) == [ok |-> FALSE, val |-> 0, kind |-> k]

\* the digit loop of the u8 parser: for each character, the digit check,
\* then the checked multiplication, then the checked addition
RECURSIVE parse_digits(_, _, _)
parse_digits(digits, i, result) ==
    IF i > Len(digits) THEN IntOk(result)
    ELSE LET x == to_digit(digits[i])
             m == checked_mul(result, Radix)
         IN  IF x = -1 THEN IntErr("InvalidDigit")
             ELSE IF m = -1 THEN IntErr("PosOverflow")
             ELSE LET r == checked_add(m, x)
                  IN  IF r = -1 THEN IntErr("PosOverflow")
                      ELSE parse_digits(digits, i + 1, r)

\* mutant: a leading '-' is skipped like a leading '+'
parse_u8_minus(src) ==
    IF Len(src) = 0 THEN IntErr("Empty")
    ELSE IF src[1] \in {"+", "-"} /\ Len(src) = 1 THEN IntErr("InvalidDigit")
    ELSE IF src[1] \in {"+", "-"} THEN parse_digits(Tail(src), 1, 0)
    ELSE parse_digits(src, 1, 0)

\* str::parse::<u8>(): empty text is Empty, a lone sign is InvalidDigit, one
\* leading '+' is skipped, '-' is not a sign of an unsigned type
parse_u8(src) ==
    IF Len(src) = 0 THEN IntErr("Empty")
    ELSE IF src[1] \in {"+", "-"} /\ Len(src) = 1 THEN IntErr("InvalidDigit")
    ELSE IF src[1] = "+" THEN parse_digits(Tail(src), 1, 0)
    ELSE parse_digits(src, 1, 0)

----------------------------------------------------------------------------
(* s.split(',').collect() *)

RECURSIVE split_from(_, _, _, _)
split_from(s, i, cur, acc) ==
    IF i > Len(s) THEN Append(acc, cur)
    ELSE IF s[i] = "," THEN split_from(s, i + 1, <<>>, Append(acc, cur))
    ELSE split_from(s, i + 1, Append(cur, s[i]), acc)

\* mutant: empty fields are dropped
split_skip_empty(s) == SelectSeq(split_from(s, 1, <<>>, <<>>), LAMBDA f : Len(f) > 0)

\* mutant: the delimiter stays at the end of the field it closes
RECURSIVE split_inclusive_from(_, _, _, _)
split_inclusive_from(s, i, cur, acc) ==
    IF i > Len(s) THEN Append(acc, cur)
    ELSE IF s[i] = "," THEN split_inclusive_from(s, i + 1, <<>>, Append(acc, Append(cur, ",")))
    ELSE split_inclusive_from(s, i + 1, Append(cur, s[i]), acc)

split_inclusive(s) == split_inclusive_from(s, 1, <<>>, <<>>)

\* mutant: only the last delimiter splits (rsplitn(2, ','), fields in order)
RECURSIVE last_comma(_, _)
last_comma(s, i) == IF i = 0 THEN 0 ELSE IF s[i] = "," THEN i ELSE last_comma(s, i - 1)

split_last(s) ==
    LET p == last_comma(s, Len(s))
    IN  IF p = 0 THEN <<s>> ELSE <<SubSeq(s, 1, p - 1), SubSeq(s, p + 1, Len(s))>>

\* the fields of s between its commas, empty fields kept
split(s) == split_from(s, 1, <<>>, <<>>)

----------------------------------------------------------------------------
(* Values *)

\* the default's age
DefaultAge == 30

NotCalled == [tag |-> "NotCalled"]
Panic == [tag |-> "Panic"]
Person(n, a) == [tag |-> "Person", name |-> n, age |-> a]
Ok(n, a) == [tag |-> "Ok", name |-> n, age |-> a]
Err(e, k) == [tag |-> "Err", err |-> e, cause |-> k]

\* Person::default()
default == Person(<<"J", "o", "h", "n">>, DefaultAge)

\* str::trim for the one whitespace character of Alphabet (used by mutants)
RECURSIVE trim_start(_)
trim_start(s) == IF Len(s) > 0 /\ s[1] = " " THEN trim_start(Tail(s)) ELSE s
RECURSIVE trim_end(_)
trim_end(s) == IF Len(s) > 0 /\ s[Len(s)] = " " THEN trim_end(SubSeq(s, 1, Len(s) - 1)) ELSE s
trim(s) == trim_end(trim_start(s))

----------------------------------------------------------------------------
(* impl FromStr for Person *)

\* mutant: the age is parsed before the name is checked
from_str_age_first(s) ==
    LET parts == split(s)
    IN  IF Len(parts) # 2 THEN Err("BadLen", "None")
        ELSE LET name == parts[1]
                 age == parse_u8(parts[2])
             IN  IF ~age.ok THEN Err("ParseInt", age.kind)
                 ELSE IF Len(name) = 0 THEN Err("NoName", "None")
                 ELSE Ok(name, age.val)

\* mutant: the empty-name check is missing
from_str_no_name_check(s) ==
    LET parts == split(s)
    IN  IF Len(parts) # 2 THEN Err("BadLen", "None")
        ELSE LET name == parts[1]
                 age == parse_u8(parts[2])
             IN  IF ~age.ok THEN Err("ParseInt", age.kind)
                 ELSE Ok(name, age.val)

\* Person::from_str: parts[0] and parts[1] are bounds-checked indexings
from_str(s) ==
    LET parts == split(s)
    IN  IF Len(parts) # 2 THEN Err("BadLen", "None")
        ELSE IF Len(parts) < 1 THEN Panic
        ELSE LET name == parts[1]
             IN  IF Len(name) = 0 THEN Err("NoName", "None")
                 ELSE IF Len(parts) < 2 THEN Panic
                 ELSE LET age == parse_u8(parts[2])
                      IN  IF ~age.ok THEN Err("ParseInt", age.kind)
                          ELSE Ok(name, age.val)

----------------------------------------------------------------------------
(* impl From<&str> for Person *)

\* mutant: the name is trimmed
from_trim(s) ==
    LET parts == split(s)
    IN  IF Len(parts) # 2 THEN default
        ELSE LET name == trim(parts[1])
             IN  IF Len(name) = 0 THEN default
                 ELSE LET age == parse_u8(parts[2])
                      IN  IF ~age.ok THEN default
                          ELSE Person(name, age.val)

\* mutant: the empty-name check is missing
from_no_name_check(s) ==
    LET parts == split(s)
    IN  IF Len(parts) # 2 THEN default
        ELSE LET age == parse_u8(parts[2])
             IN  IF ~age.ok THEN default
                 ELSE Person(parts[1], age.val)

\* mutant: the field-count check is missing
from_no_len_check(s) ==
    LET parts == split(s)
    IN  IF Len(parts) < 1 THEN Panic
        ELSE LET name == parts[1]
             IN  IF Len(name) = 0 THEN default
                 ELSE IF Len(parts) < 2 THEN Panic
                 ELSE LET age == parse_u8(parts[2])
                      IN  IF ~age.ok THEN default
                          ELSE Person(name, age.val)

\* Person::from: parts[0] and parts[1] are bounds-checked indexings
from(s) ==
    LET parts == split(s)
    IN  IF Len(parts) # 2 THEN default
        ELSE IF Len(parts) < 1 THEN Panic
        ELSE LET name == parts[1]
             IN  IF Len(name) = 0 THEN default
                 ELSE IF Len(parts) < 2 THEN Panic
                 ELSE LET age == parse_u8(parts[2])
                      IN  IF ~age.ok THEN default
                          ELSE Person(name, age.val)

----------------------------------------------------------------------------
(* The state machine *)

Init ==
    /\ input \in Inputs
    /\ strict = NotCalled
    /\ fallback = NotCalled

\* input.parse::<Person>()
CallFromStr ==
    /\ strict = NotCalled
    /\ strict' = from_str(input)
    /\ UNCHANGED <<input, fallback>>

\* Person::from(input)
CallFrom ==
    /\ fallback = NotCalled
    /\ fallback' = from(input)
    /\ UNCHANGED <<input, strict>>

Next == CallFromStr \/ CallFrom

Spec == Init /\ [][Next]_vars

----------------------------------------------------------------------------
(* Vocabulary of the properties, defined on the input text alone *)

Digits == {"0", "1", "2", "3", "4", "5", "6", "7", "8", "9"}

CommaPositions(s) == {i \in 1..Len(s) : s[i] = ","}
CommaCount(s) == Cardinality(CommaPositions(s))
OneComma(s) == CommaCount(s) = 1
CommaAt(s) == CHOOSE i \in CommaPositions(s) : TRUE

\* for a text with exactly one comma: the text before it and the text after it
Field0(s) == SubSeq(s, 1, CommaAt(s) - 1)
Field1(s) == SubSeq(s, CommaAt(s) + 1, Len(s))

HasComma(t) == \E i \in 1..Len(t) : t[i] = ","
AllDigits(t) == \A i \in 1..Len(t) : t[i] \in Digits

\* the number a digit string denotes, unbounded
RECURSIVE DecValue(_)
DecValue(t) ==
    IF Len(t) = 0 THEN 0
    ELSE 10 * DecValue(SubSeq(t, 1, Len(t) - 1))
           + (CHOOSE d \in 0..9 : ToString(d) = t[Len(t)])

\* digits alone, denoting a value in [0,255]
PlainAge(t) == Len(t) > 0 /\ AllDigits(t) /\ DecValue(t) <= 255

\* digits alone after at most one leading '+', denoting a value in [0,255]
SignedAge(t) == PlainAge(t) \/ (Len(t) > 1 /\ t[1] = "+" /\ PlainAge(Tail(t)))

StrictCalled == strict # NotCalled
FallbackCalled == fallback # NotCalled
IsInvalidAge(r) == r.tag = "Err" /\ r.err = "ParseInt"
JoinFields(parts) ==
    LET RECURSIVE join(_)
        join(k) == IF k = 1 THEN parts[1] ELSE join(k - 1) \o <<",">> \o parts[k]
    IN  join(Len(parts))

----------------------------------------------------------------------------
(* The properties *)

\* C1: for every input with exactly one comma, a non-empty field 0 and a field 1
\* of digits alone denoting a value in [0,255], from_str returns Ok and from
\* returns a Person, both with name = field 0 unchanged and age = that value.
C1_GoodInput ==
    (OneComma(input) /\ Len(Field0(input)) > 0 /\ PlainAge(Field1(input)))
        => /\ StrictCalled => strict = Ok(Field0(input), DecValue(Field1(input)))
           /\ FallbackCalled => fallback = Person(Field0(input), DecValue(Field1(input)))

C1_Witness ==
    /\ OneComma(input) /\ Len(Field0(input)) > 0 /\ PlainAge(Field1(input))
    /\ DecValue(Field1(input)) = 255
    /\ strict.tag = "Ok" /\ fallback.tag = "Person"

\* C2: the split yields one field more than there are commas, the fields joined
\* by commas are the input, and from_str returns BadLen exactly when the input
\* does not hold exactly one comma.
C2_BadLenIffNotOneComma ==
    /\ Len(split(input)) = CommaCount(input) + 1
    /\ JoinFields(split(input)) = input
    /\ StrictCalled =>
         ((strict.tag = "Err" /\ strict.err = "BadLen") <=> ~OneComma(input))

C2_Witness ==
    /\ CommaCount(input) = 2 /\ input[Len(input)] = ","
    /\ Len(split(input)[1]) > 0 /\ PlainAge(split(input)[2])
    /\ strict = Err("BadLen", "None")

\* C3: from_str checks the field count, then the name, then the age: one comma
\* and an empty field 0 give NoName whatever field 1 is, and a comma count other
\* than one gives BadLen.
C3_CheckOrder ==
    StrictCalled =>
        /\ (OneComma(input) /\ Len(Field0(input)) = 0) => strict = Err("NoName", "None")
        /\ ~OneComma(input) => strict = Err("BadLen", "None")

C3_Witness ==
    /\ OneComma(input) /\ Len(Field0(input)) = 0 /\ ~parse_u8(Field1(input)).ok
    /\ strict = Err("NoName", "None")

\* C4 as stated: with one comma and a non-empty field 0, every field 1 that is
\* not digits alone denoting a value in [0,255] is rejected: from_str returns
\* ParseInt and from returns the default.
C4_DigitsOnly ==
    (OneComma(input) /\ Len(Field0(input)) > 0 /\ ~PlainAge(Field1(input)))
        => /\ StrictCalled => IsInvalidAge(strict)
           /\ FallbackCalled => fallback = default

\* C4 amended: with one comma and a non-empty field 0, every field 1 that is not
\* digits alone, after at most one leading '+', denoting a value in [0,255] is
\* rejected: from_str returns ParseInt and from returns the default.  So is
\* every field 1 that contains '-'.
C4_DigitsAfterOptionalPlus ==
    (OneComma(input) /\ Len(Field0(input)) > 0)
        => /\ ~SignedAge(Field1(input))
                => /\ StrictCalled => IsInvalidAge(strict)
                   /\ FallbackCalled => fallback = default
           /\ (\E i \in 1..Len(Field1(input)) : Field1(input)[i] = "-")
                => /\ StrictCalled => IsInvalidAge(strict)
                   /\ FallbackCalled => fallback = default

C4_Witness ==
    /\ OneComma(input) /\ Len(Field0(input)) > 0
    /\ Field1(input) = <<"2", "5", "6">>
    /\ IsInvalidAge(strict) /\ fallback = default

\* C5: when from_str succeeds, from on the same input returns a Person with the
\* same name and the same age.
C5_SuccessAgrees ==
    (strict.tag = "Ok" /\ FallbackCalled)
        => /\ fallback.tag = "Person"
           /\ fallback.name = strict.name
           /\ fallback.age = strict.age

C5_Witness ==
    /\ strict.tag = "Ok" /\ fallback.tag = "Person"
    /\ fallback # default

\* C6: when from_str fails, with any of the three errors, from on the same
\* input returns the default Person, name "John" and age 30.
C6_FailureGivesDefault ==
    (strict.tag = "Err" /\ FallbackCalled)
        => /\ strict.err \in {"BadLen", "NoName", "ParseInt"}
           /\ fallback = [tag |-> "Person", name |-> <<"J", "o", "h", "n">>, age |-> 30]

C6_Witness ==
    /\ strict = Err("NoName", "None")
    /\ fallback = default

\* C7: from returns, for every input, a Person with a non-empty name and an age
\* in [0,255]; it never panics.
C7_FromTotal ==
    FallbackCalled =>
        /\ fallback.tag = "Person"
        /\ Len(fallback.name) > 0
        /\ fallback.age \in 0..255

C7_Witness ==
    /\ ~OneComma(input)
    /\ fallback.tag = "Person"

\* C8: from_str returns, for every input, either Ok with a non-empty name and an
\* age in [0,255], or one of BadLen, NoName, ParseInt; it never panics.
C8_FromStrTotal ==
    StrictCalled =>
        \/ /\ strict.tag = "Ok"
           /\ Len(strict.name) > 0
           /\ strict.age \in 0..255
        \/ /\ strict.tag = "Err"
           /\ strict.err \in {"BadLen", "NoName", "ParseInt"}

C8_Witness ==
    /\ strict.tag = "Ok"
    /\ Len(strict.name) > 1

\* C9 as stated: when from_str fails with ParseInt, the cause is that of the u8
\* parse of field 1: Empty exactly when field 1 is empty, PosOverflow when field
\* 1 is digits alone denoting more than 255, InvalidDigit when field 1 is
\* non-empty and begins with a character that is not a digit.
C9_CauseByFirstChar ==
    IsInvalidAge(strict) =>
        /\ strict.cause = parse_u8(Field1(input)).kind
        /\ strict.cause = "Empty" <=> Len(Field1(input)) = 0
        /\ (Len(Field1(input)) > 0 /\ AllDigits(Field1(input)) /\ DecValue(Field1(input)) > 255)
              => strict.cause = "PosOverflow"
        /\ (Len(Field1(input)) > 0 /\ Field1(input)[1] \notin Digits)
              => strict.cause = "InvalidDigit"

\* C9 amended: as stated, except that the cause is InvalidDigit when field 1 is
\* non-empty and begins with a character that is neither a digit nor '+'.
C9_CauseByFirstCharNotPlus ==
    IsInvalidAge(strict) =>
        /\ strict.cause = parse_u8(Field1(input)).kind
        /\ strict.cause = "Empty" <=> Len(Field1(input)) = 0
        /\ (Len(Field1(input)) > 0 /\ AllDigits(Field1(input)) /\ DecValue(Field1(input)) > 255)
              => strict.cause = "PosOverflow"
        /\ (Len(Field1(input)) > 0 /\ Field1(input)[1] \notin Digits \cup {"+"})
              => strict.cause = "InvalidDigit"

C9_Witness ==
    /\ IsInvalidAge(strict)
    /\ Field1(input) = <<"-", "2", "5", "6">>
    /\ strict.cause = "InvalidDigit"

\* C10: the name of a Person returned by from_str or by from holds no comma.
C10_NameHasNoComma ==
    /\ strict.tag = "Ok" => ~HasComma(strict.name)
    /\ fallback.tag = "Person" => ~HasComma(fallback.name)

C10_Witness ==
    /\ strict.tag = "Ok" /\ fallback.tag = "Person"
    /\ fallback.name = strict.name
    /\ Len(strict.name) > 1

====
